---- MODULE Spec2Model ----
(***************************************************************************)
(* Model of terraform/scan-processor.py: the Lambda handler that processes *)
(* an ECR image-scan event, scores the findings, and publishes an alert    *)
(* (or an error report) to an SNS topic.                                   *)
(*                                                                         *)
(* Python dictionaries are functions whose DOMAIN is the set of keys       *)
(* present.  Severity strings of findings are tuples of character codes,   *)
(* so that Python's lexicographic string comparison is computed, not       *)
(* assumed.  The value None is the reserved string NoneVal.                *)
(***************************************************************************)
EXTENDS Integers, Sequences, FiniteSets, TLC

VARIABLES
    pc,                  \* position of the current invocation inside handler
    env,                 \* os.environ: the value of SNS_TOPIC_ARN
    event,               \* the event passed to handler
    repository_name, image_tag, scan_status,
    findings, finding_counts,
    risk_score, alert_level, top_vulnerabilities,
    alert_message,
    exc,                 \* the exception bound to e in the except clause
    fetchCalls,          \* ecr_client.describe_image_scan_findings calls
    alertCalls,          \* alert_level argument of every send_alert call
    errorAlertCalls,     \* number of send_error_alert calls
    published,           \* sns_client.publish calls, in order
    log,                 \* logger records, in order
    outcome,             \* how the invocation ended
    raised,              \* the exception that reached the caller
    result               \* the value returned to the caller

vars == <<pc, env, event, repository_name, image_tag, scan_status,
          findings, finding_counts, risk_score, alert_level,
          top_vulnerabilities, alert_message, exc, fetchCalls, alertCalls,
          errorAlertCalls, published, log, outcome, raised, result>>

-----------------------------------------------------------------------------
(* Bounds of the model *)

MaxCount == 6            \* largest count per severity drawn for the assessor
MaxFindings == 6         \* longest findings list drawn for the top-5 extraction
MaxHigh == 6             \* largest HIGH count in a handler invocation
MaxMinor == 1            \* the nonzero CRITICAL, MEDIUM, LOW count in a handler invocation
MaxHandlerFindings == 1  \* longest findings list in a handler invocation

-----------------------------------------------------------------------------
(* Program constants *)

WeightCritical == 10
WeightHigh == 5
WeightMedium == 2
WeightLow == 1
HighThreshold == 5
TopN == 5

-----------------------------------------------------------------------------
(* Python values *)

NoneVal == "<None>"
EmptyDict == <<>>

\* dict.get(k, default)
Get(d, k, default) == IF k \in DOMAIN d THEN d[k] ELSE default

\* Severity strings of findings, as tuples of character codes.
SevCRITICAL == <<67, 82, 73, 84, 73, 67, 65, 76>>
SevHIGH == <<72, 73, 71, 72>>
SevMEDIUM == <<77, 69, 68, 73, 85, 77>>
SevLOW == <<76, 79, 87>>
SevUNKNOWN == <<85, 78, 75, 78, 79, 87, 78>>

\* Python's str comparison a < b: by code point, a proper prefix is smaller.
RECURSIVE StrLess(_, _)
StrLess(a, b) ==
    IF b = <<>> THEN FALSE
    ELSE IF a = <<>> THEN TRUE
    ELSE IF a[1] # b[1] THEN a[1] < b[1]
    ELSE StrLess(Tail(a), Tail(b))

-----------------------------------------------------------------------------
(* RiskAssessor: lines 42-70 of handler *)

\* the score summed over every label of the mapping
RiskScore_AllLabels(counts) ==
    (Get(counts, "CRITICAL", 0) * WeightCritical)
    + (Get(counts, "HIGH", 0) * WeightHigh)
    + (Get(counts, "MEDIUM", 0) * WeightMedium)
    + (Get(counts, "LOW", 0) * WeightLow)
    + (Get(counts, "UNDEFINED", 0) * WeightLow)

RiskScore(counts) ==
    (Get(counts, "CRITICAL", 0) * WeightCritical)
    + (Get(counts, "HIGH", 0) * WeightHigh)
    + (Get(counts, "MEDIUM", 0) * WeightMedium)
    + (Get(counts, "LOW", 0) * WeightLow)

\* the HIGH rule with >= in place of >
AlertLevel_HighAtFive(counts) ==
    IF Get(counts, "CRITICAL", 0) > 0 THEN "CRITICAL"
    ELSE IF Get(counts, "HIGH", 0) >= HighThreshold THEN "HIGH"
    ELSE IF Get(counts, "HIGH", 0) > 0 THEN "MEDIUM"
    ELSE "INFO"

AlertLevel(counts) ==
    IF Get(counts, "CRITICAL", 0) > 0 THEN "CRITICAL"
    ELSE IF Get(counts, "HIGH", 0) > HighThreshold THEN "HIGH"
    ELSE IF Get(counts, "HIGH", 0) > 0 THEN "MEDIUM"
    ELSE "INFO"

\* key=lambda x: x.get('severity', 'LOW')
SortKey(finding) == Get(finding, "severity", SevLOW)

\* Insert x into a list sorted by descending key, after every element whose
\* key is not smaller: equal keys keep their input order, as sorted() does
\* with reverse=True.
\* the sort without reverse=True
RECURSIVE InsertDesc_Asc(_, _)
InsertDesc_Asc(x, s) ==
    IF s = <<>> THEN <<x>>
    ELSE IF StrLess(SortKey(x), SortKey(Head(s))) THEN <<x>> \o s
    ELSE <<Head(s)>> \o InsertDesc_Asc(x, Tail(s))

RECURSIVE InsertDesc(_, _)
InsertDesc(x, s) ==
    IF s = <<>> THEN <<x>>
    ELSE IF StrLess(SortKey(Head(s)), SortKey(x)) THEN <<x>> \o s
    ELSE <<Head(s)>> \o InsertDesc(x, Tail(s))

RECURSIVE SortedDesc(_)
SortedDesc(s) ==
    IF s = <<>> THEN <<>>
    ELSE InsertDesc(s[Len(s)], SortedDesc(SubSeq(s, 1, Len(s) - 1)))

\* [:n]
Slice(s, n) == SubSeq(s, 1, IF Len(s) < n THEN Len(s) ELSE n)

VulnInfo(finding) ==
    [name |-> Get(finding, "name", 0),
     severity |-> Get(finding, "severity", SevUNKNOWN)]

TopVulnerabilities(fs) ==
    LET top == Slice(SortedDesc(fs), TopN)
    IN [i \in 1..Len(top) |-> VulnInfo(top[i])]

-----------------------------------------------------------------------------
(* ReportFormatter: create_alert_message *)

create_alert_message(repo_name, tag, counts, score, level, top_vulns) ==
    [level |-> level,
     repository |-> repo_name,
     tag |-> tag,
     riskScore |-> score,
     critical |-> Get(counts, "CRITICAL", 0),
     high |-> Get(counts, "HIGH", 0),
     medium |-> Get(counts, "MEDIUM", 0),
     low |-> Get(counts, "LOW", 0),
     vulns |-> top_vulns,
     blockDeployment |-> Get(counts, "CRITICAL", 0) > 0,
     patchWithin24h |-> Get(counts, "HIGH", 0) > 0]

-----------------------------------------------------------------------------
(* Notifier: send_alert and send_error_alert.  Each returns the publish    *)
(* calls made, the log records written and the exception that escapes the  *)
(* function ("none" when it returns normally).  publishOk is the outcome   *)
(* of the sns_client.publish call.                                         *)

\* `topic_arn is None` in place of `not topic_arn`
TopicUnset_OnlyNone(topic_arn) == topic_arn = NoneVal

\* `not topic_arn`
TopicUnset(topic_arn) == topic_arn = NoneVal \/ topic_arn = ""

PublishError == "PublishError"

\* send_alert without the try/except around publish
send_alert_Propagates(topic_arn, message, level, publishOk) ==
    IF TopicUnset(topic_arn)
    THEN [pub |-> <<>>, log |-> <<"SNS_TOPIC_ARN not configured">>, raises |-> "none"]
    ELSE [pub |-> <<[kind |-> "alert", AlertLevel |-> level, Source |-> "ECR-Scanner",
                     ok |-> publishOk]>>,
          log |-> IF publishOk THEN <<"Alert sent successfully">> ELSE <<>>,
          raises |-> IF publishOk THEN "none" ELSE PublishError]

\* send_alert publishing a second time when the first publish fails
send_alert_Retries(topic_arn, message, level, publishOk) ==
    IF TopicUnset(topic_arn)
    THEN [pub |-> <<>>, log |-> <<"SNS_TOPIC_ARN not configured">>, raises |-> "none"]
    ELSE [pub |-> IF publishOk
                  THEN <<[kind |-> "alert", AlertLevel |-> level,
                          Source |-> "ECR-Scanner", ok |-> TRUE]>>
                  ELSE <<[kind |-> "alert", AlertLevel |-> level,
                          Source |-> "ECR-Scanner", ok |-> FALSE],
                         [kind |-> "alert", AlertLevel |-> level,
                          Source |-> "ECR-Scanner", ok |-> TRUE]>>,
          log |-> <<"Alert sent successfully">>,
          raises |-> "none"]

send_alert(topic_arn, message, level, publishOk) ==
    IF TopicUnset(topic_arn)
    THEN [pub |-> <<>>, log |-> <<"SNS_TOPIC_ARN not configured">>, raises |-> "none"]
    ELSE [pub |-> <<[kind |-> "alert", AlertLevel |-> level, Source |-> "ECR-Scanner",
                     ok |-> publishOk]>>,
          log |-> IF publishOk THEN <<"Alert sent successfully">>
                  ELSE <<"Failed to send alert">>,
          raises |-> "none"]

\* send_error_alert without the try/except around publish
send_error_alert_Propagates(topic_arn, error_message, publishOk) ==
    IF TopicUnset(topic_arn)
    THEN [pub |-> <<>>, log |-> <<>>, raises |-> "none"]
    ELSE [pub |-> <<[kind |-> "error", AlertLevel |-> "none", Source |-> "none",
                     ok |-> publishOk]>>,
          log |-> <<>>,
          raises |-> IF publishOk THEN "none" ELSE PublishError]

send_error_alert(topic_arn, error_message, publishOk) ==
    IF TopicUnset(topic_arn)
    THEN [pub |-> <<>>, log |-> <<>>, raises |-> "none"]
    ELSE [pub |-> <<[kind |-> "error", AlertLevel |-> "none", Source |-> "none",
                     ok |-> publishOk]>>,
          log |-> IF publishOk THEN <<>> ELSE <<"Failed to send error alert">>,
          raises |-> "none"]

-----------------------------------------------------------------------------
(* Inputs *)

Repos == {"app"}
Statuses == {"COMPLETE", "IN_PROGRESS", "FAILED"}
TopicValues == {NoneVal, "", "arn:aws:sns:alerts"}
FetchErrors == {"ImageNotFoundException", "ThrottlingException"}

RepoOpts == {EmptyDict} \cup {("repository-name" :> r) : r \in Repos}
TagOpts == {EmptyDict} \cup
           {("image-tags" :> t) : t \in {<<>>, <<"v1">>, <<"v2", "v1">>}}
StatusOpts == {EmptyDict} \cup {("scan-status" :> s) : s \in Statuses}

Details == {r @@ t @@ s : r \in RepoOpts, t \in TagOpts, s \in StatusOpts}
Events == {EmptyDict} \cup {("detail" :> d) : d \in Details}

Opt(k, S) == {EmptyDict} \cup {(k :> v) : v \in S}

\* findingCounts of a provider response, with any subset of the keys
CountsUpTo(n, other) ==
    {c @@ h @@ m @@ l @@ u :
        c \in Opt("CRITICAL", 0..n), h \in Opt("HIGH", 0..n),
        m \in Opt("MEDIUM", 0..n), l \in Opt("LOW", 0..n),
        u \in Opt("UNDEFINED", other)}

HandlerCounts ==
    {EmptyDict} \cup
    {("CRITICAL" :> c) @@ ("HIGH" :> h) @@ ("MEDIUM" :> m) @@ ("LOW" :> l) :
        c \in {0, MaxMinor}, h \in 0..MaxHigh, m \in {0, MaxMinor},
        l \in {0, MaxMinor}}

Severities == {SevCRITICAL, SevHIGH, SevMEDIUM, SevLOW}
FindingOpts == {EmptyDict} \cup {("severity" :> s) : s \in Severities}
HandlerFindingOpts == {EmptyDict, ("severity" :> SevHIGH)}

\* a findings list; the name of a finding is its position in the list
MkFindings(f) == [i \in DOMAIN f |-> ("name" :> i) @@ f[i]]

-----------------------------------------------------------------------------
(* handler *)

NoResult == [statusCode |-> 0]
NoMessage == [level |-> NoneVal]

Fresh ==
    /\ repository_name = NoneVal /\ image_tag = NoneVal /\ scan_status = NoneVal
    /\ findings = <<>> /\ finding_counts = EmptyDict
    /\ risk_score = 0 /\ alert_level = "INFO" /\ top_vulnerabilities = <<>>
    /\ alert_message = NoMessage /\ exc = "none"
    /\ fetchCalls = 0 /\ alertCalls = <<>> /\ errorAlertCalls = 0
    /\ published = <<>> /\ log = <<>>
    /\ outcome = "none" /\ raised = "none" /\ result = NoResult

Init ==
    /\ pc = "idle"
    /\ env \in TopicValues
    /\ event = EmptyDict
    /\ Fresh

ImageTag(detail) ==
    IF Get(detail, "image-tags", <<>>) # <<>>
    THEN Get(detail, "image-tags", <<"latest">>)[1]
    ELSE "latest"

\* line 28
ScanNotComplete_OnlyInProgress(status) == status = "IN_PROGRESS"

ScanNotComplete(status) == status # "COMPLETE"

\* lines 15-30: a new invocation; every local starts afresh
Invoke(ev) ==
    /\ pc \in {"idle", "done"}
    /\ event' = ev
    /\ LET detail == Get(ev, "detail", EmptyDict)
           status == Get(detail, "scan-status", NoneVal)
       IN /\ repository_name' = Get(detail, "repository-name", NoneVal)
          /\ image_tag' = ImageTag(detail)
          /\ scan_status' = status
          /\ IF ScanNotComplete(status)
             THEN /\ log' = <<"Processing ECR scan event", "Scan not complete">>
                  /\ outcome' = "returned"
                  /\ pc' = "done"
             ELSE /\ log' = <<"Processing ECR scan event">>
                  /\ outcome' = "none"
                  /\ pc' = "fetch"
    /\ findings' = <<>> /\ finding_counts' = EmptyDict
    /\ risk_score' = 0 /\ alert_level' = "INFO" /\ top_vulnerabilities' = <<>>
    /\ alert_message' = NoMessage /\ exc' = "none"
    /\ fetchCalls' = 0 /\ alertCalls' = <<>> /\ errorAlertCalls' = 0
    /\ published' = <<>> /\ raised' = "none" /\ result' = NoResult
    /\ UNCHANGED env

\* lines 32-40: the provider answers
FetchOk(counts, fs) ==
    /\ pc = "fetch"
    /\ fetchCalls' = fetchCalls + 1
    /\ finding_counts' = counts
    /\ findings' = fs
    /\ pc' = "assess"
    /\ UNCHANGED <<env, event, repository_name, image_tag, scan_status,
                   risk_score, alert_level, top_vulnerabilities, alert_message,
                   exc, alertCalls, errorAlertCalls, published, log, outcome,
                   raised, result>>

\* line 33 raises
FetchRaises(e) ==
    /\ pc = "fetch"
    /\ fetchCalls' = fetchCalls + 1
    /\ exc' = e
    /\ pc' = "except"
    /\ UNCHANGED <<env, event, repository_name, image_tag, scan_status,
                   findings, finding_counts, risk_score, alert_level,
                   top_vulnerabilities, alert_message, alertCalls,
                   errorAlertCalls, published, log, outcome, raised, result>>

\* lines 42-70
Assess ==
    /\ pc = "assess"
    /\ risk_score' = RiskScore(finding_counts)
    /\ alert_level' = AlertLevel(finding_counts)
    /\ top_vulnerabilities' = TopVulnerabilities(findings)
    /\ pc' = "format"
    /\ UNCHANGED <<env, event, repository_name, image_tag, scan_status,
                   findings, finding_counts, alert_message, exc, fetchCalls,
                   alertCalls, errorAlertCalls, published, log, outcome,
                   raised, result>>

\* lines 72-76
Format ==
    /\ pc = "format"
    /\ alert_message' = create_alert_message(repository_name, image_tag,
                            finding_counts, risk_score, alert_level,
                            top_vulnerabilities)
    /\ pc' = "notify"
    /\ UNCHANGED <<env, event, repository_name, image_tag, scan_status,
                   findings, finding_counts, risk_score, alert_level,
                   top_vulnerabilities, exc, fetchCalls, alertCalls,
                   errorAlertCalls, published, log, outcome, raised, result>>

\* the alert sent for CRITICAL and HIGH only
AlertNeeded_NoMedium(level) == level \in {"CRITICAL", "HIGH"}

\* line 79
AlertNeeded(level) == level \in {"CRITICAL", "HIGH", "MEDIUM"}

\* lines 78-95: send the alert if needed, log the summary, return the result
NotifyAndReturn(publishOk) ==
    /\ pc = "notify"
    /\ LET call == AlertNeeded(alert_level)
           r == IF call THEN send_alert(env, alert_message, alert_level, publishOk)
                ELSE [pub |-> <<>>, log |-> <<>>, raises |-> "none"]
       IN /\ alertCalls' = IF call THEN Append(alertCalls, alert_level) ELSE alertCalls
          /\ published' = published \o r.pub
          /\ IF r.raises = "none"
             THEN /\ log' = log \o r.log \o <<"Scan processed">>
                  /\ outcome' = "result"
                  /\ result' = [statusCode |-> 200,
                                message |-> "Scan processed successfully",
                                repository |-> repository_name,
                                tag |-> image_tag,
                                riskScore |-> risk_score,
                                alertLevel |-> alert_level]
                  /\ pc' = "done"
                  /\ exc' = exc
             ELSE /\ log' = log \o r.log
                  /\ exc' = r.raises
                  /\ pc' = "except"
                  /\ UNCHANGED <<outcome, result>>
    /\ UNCHANGED <<env, event, repository_name, image_tag, scan_status,
                   findings, finding_counts, risk_score, alert_level,
                   top_vulnerabilities, alert_message, fetchCalls,
                   errorAlertCalls, raised>>

\* line 100: the except clause ends by raising
ExceptEnds_Swallowed == "returned"

ExceptEnds == "raised"

\* lines 97-100: log, report the error, re-raise
HandleError(publishOk) ==
    /\ pc = "except"
    /\ LET r == send_error_alert(env, exc, publishOk)
       IN /\ errorAlertCalls' = errorAlertCalls + 1
          /\ published' = published \o r.pub
          /\ log' = log \o <<"Error processing scan results">> \o r.log
          /\ raised' = IF r.raises # "none" THEN r.raises
                       ELSE IF ExceptEnds = "raised" THEN exc ELSE "none"
    /\ outcome' = ExceptEnds
    /\ pc' = "done"
    /\ UNCHANGED <<env, event, repository_name, image_tag, scan_status,
                   findings, finding_counts, risk_score, alert_level,
                   top_vulnerabilities, alert_message, exc, fetchCalls,
                   alertCalls, result>>

Next ==
    \/ \E ev \in Events : Invoke(ev)
    \/ \E counts \in HandlerCounts, n \in 0..MaxHandlerFindings :
          \E f \in [1..n -> HandlerFindingOpts] : FetchOk(counts, MkFindings(f))
    \/ \E e \in FetchErrors : FetchRaises(e)
    \/ Assess
    \/ Format
    \/ \E ok \in BOOLEAN : NotifyAndReturn(ok)
    \/ \E ok \in BOOLEAN : HandleError(ok)

Spec == Init /\ [][Next]_vars

-----------------------------------------------------------------------------
(* The assessor alone, on every findingCounts mapping up to MaxCount *)

InitAssess ==
    /\ pc = "assess"
    /\ env = NoneVal
    /\ event = EmptyDict
    /\ repository_name = "app" /\ image_tag = "latest" /\ scan_status = "COMPLETE"
    /\ finding_counts \in CountsUpTo(MaxCount, {0, MaxCount})
    /\ findings = <<>>
    /\ risk_score = 0 /\ alert_level = "INFO" /\ top_vulnerabilities = <<>>
    /\ alert_message = NoMessage /\ exc = "none"
    /\ fetchCalls = 1 /\ alertCalls = <<>> /\ errorAlertCalls = 0
    /\ published = <<>> /\ log = <<"Processing ECR scan event">>
    /\ outcome = "none" /\ raised = "none" /\ result = NoResult

NextAssess ==
    \/ Assess
    \/ Format
    \/ \E ok \in BOOLEAN : NotifyAndReturn(ok)

SpecAssess == InitAssess /\ [][NextAssess]_vars

(* The top-5 extraction alone, on every findings list up to MaxFindings *)

InitTop ==
    /\ pc = "assess"
    /\ env = NoneVal
    /\ event = EmptyDict
    /\ repository_name = "app" /\ image_tag = "latest" /\ scan_status = "COMPLETE"
    /\ finding_counts = EmptyDict
    /\ \E n \in 0..MaxFindings :
          \E f \in [1..n -> FindingOpts] : findings = MkFindings(f)
    /\ risk_score = 0 /\ alert_level = "INFO" /\ top_vulnerabilities = <<>>
    /\ alert_message = NoMessage /\ exc = "none"
    /\ fetchCalls = 1 /\ alertCalls = <<>> /\ errorAlertCalls = 0
    /\ published = <<>> /\ log = <<"Processing ECR scan event">>
    /\ outcome = "none" /\ raised = "none" /\ result = NoResult

NextTop == Assess

SpecTop == InitTop /\ [][NextTop]_vars

-----------------------------------------------------------------------------
(* Properties *)

\* what the event and the provider response say, read without the handler
EventStatus ==
    LET detail == IF "detail" \in DOMAIN event THEN event["detail"] ELSE EmptyDict
    IN IF "scan-status" \in DOMAIN detail THEN detail["scan-status"] ELSE NoneVal

CountOf(label) ==
    IF label \in DOMAIN finding_counts THEN finding_counts[label] ELSE 0

ExpectedTier ==
    IF CountOf("CRITICAL") >= 1 THEN "CRITICAL"
    ELSE IF CountOf("HIGH") > 5 THEN "HIGH"
    ELSE IF CountOf("HIGH") > 0 /\ CountOf("HIGH") <= 5 THEN "MEDIUM"
    ELSE "INFO"

ExpectedScore ==
    10 * CountOf("CRITICAL") + 5 * CountOf("HIGH")
    + 2 * CountOf("MEDIUM") + 1 * CountOf("LOW")

PublishedOfKind(kind) == {i \in DOMAIN published : published[i].kind = kind}
Logged(msg) == \E i \in DOMAIN log : log[i] = msg
Assessed == pc \in {"format", "notify", "done"}

\* C1: an invocation whose event's scan-status is not "COMPLETE" (absent
\* included) ends at once by returning without a result object and without
\* raising; no findings fetch is made, neither send_alert nor
\* send_error_alert is called and nothing is published.
C1_EarlyReturnNoEffects ==
    (pc # "idle" /\ EventStatus # "COMPLETE") =>
        /\ pc = "done"
        /\ outcome = "returned" /\ raised = "none" /\ result = NoResult
        /\ fetchCalls = 0
        /\ alertCalls = <<>> /\ errorAlertCalls = 0
        /\ published = <<>>

C1_Witness ==
    /\ pc = "done" /\ EventStatus = "IN_PROGRESS"
    /\ outcome = "returned" /\ fetchCalls = 0

\* C2: the alert tier is the ordered cascade CRITICAL if critical >= 1, else
\* HIGH if high > 5, else MEDIUM if 0 < high <= 5, else INFO; replacing the
\* MEDIUM and LOW counts by any others leaves the tier unchanged.
C2_TierCascade ==
    Assessed =>
        /\ (CountOf("CRITICAL") >= 1 => alert_level = "CRITICAL")
        /\ (CountOf("CRITICAL") = 0 /\ CountOf("HIGH") > 5 => alert_level = "HIGH")
        /\ (CountOf("CRITICAL") = 0 /\ CountOf("HIGH") > 0 /\ CountOf("HIGH") <= 5
               => alert_level = "MEDIUM")
        /\ (CountOf("CRITICAL") = 0 /\ CountOf("HIGH") = 0 => alert_level = "INFO")
        /\ LET rest == [k \in DOMAIN finding_counts \ {"MEDIUM", "LOW"}
                          |-> finding_counts[k]]
           IN \A m \in Opt("MEDIUM", 0..MaxCount), l \in Opt("LOW", 0..MaxCount) :
                 AlertLevel(rest @@ m @@ l) = alert_level

C2_Witness ==
    /\ pc = "done" /\ outcome = "result"
    /\ CountOf("CRITICAL") = 0 /\ CountOf("HIGH") = 5 /\ CountOf("MEDIUM") > 0
    /\ alert_level = "MEDIUM"

\* C3: the riskScore of the returned result is 10*c + 5*h + 2*m + 1*l, a
\* missing severity key counting as 0 and counts under any other label not
\* counting at all; {CRITICAL:1, HIGH:2, MEDIUM:0, LOW:3} scores 23.
C3_RiskScore ==
    /\ Assessed => risk_score = ExpectedScore
    /\ (pc = "done" /\ outcome = "result") => result.riskScore = ExpectedScore
    /\ (Assessed /\ CountOf("CRITICAL") = 1 /\ CountOf("HIGH") = 2
          /\ CountOf("MEDIUM") = 0 /\ CountOf("LOW") = 3) => risk_score = 23

C3_Witness ==
    /\ pc = "done" /\ outcome = "result"
    /\ DOMAIN finding_counts = {"HIGH", "UNDEFINED"}
    /\ finding_counts["UNDEFINED"] > 0
    /\ result.riskScore = 30

\* C4: in an invocation that returns the statusCode 200 result, send_alert
\* is called exactly when the tier is MEDIUM, HIGH or CRITICAL (critical > 0
\* or high > 0), the tier passed and published is the computed tier, and
\* with tier INFO nothing is published whatever the risk score.
C4_AlertIffTier ==
    (pc = "done" /\ outcome = "result") =>
        /\ (alertCalls # <<>>) <=> (CountOf("CRITICAL") > 0 \/ CountOf("HIGH") > 0)
        /\ (alertCalls # <<>>) <=> (ExpectedTier \in {"MEDIUM", "HIGH", "CRITICAL"})
        /\ (alertCalls # <<>>) => alertCalls = <<ExpectedTier>>
        /\ \A i \in DOMAIN published :
              published[i].kind = "alert" /\ published[i].AlertLevel = ExpectedTier
        /\ ExpectedTier = "INFO" => published = <<>>
        /\ result.alertLevel = ExpectedTier

C4_Witness ==
    /\ pc = "done" /\ outcome = "result"
    /\ alertCalls = <<"MEDIUM">>
    /\ Len(published) = 1 /\ published[1].AlertLevel = "MEDIUM"

\* C5: when the findings fetch raises, the handler calls send_error_alert
\* once and then raises the exception of the fetch to the caller, whether the
\* publish of the error report succeeded or failed.
C5_ReraisesOriginal ==
    /\ pc = "except" => (outcome = "none" /\ raised = "none" /\ errorAlertCalls = 0)
    /\ outcome = "raised" =>
          /\ errorAlertCalls = 1
          /\ Logged("Error processing scan results")
          /\ exc \in FetchErrors
          /\ raised = exc
          /\ result = NoResult

C5_Witness ==
    /\ pc = "done" /\ outcome = "raised"
    /\ raised = "ThrottlingException"
    /\ Len(published) = 1 /\ published[1].kind = "error" /\ ~published[1].ok

\* C6: a failure of the publish call never escapes send_alert or
\* send_error_alert; an invocation whose fetch, assessment and formatting
\* succeeded returns statusCode 200 with the riskScore and tier of the
\* response whether the publish succeeded or failed, and sends no error
\* report.
C6_PublishFailureSwallowed ==
    /\ \A t \in TopicValues, ok \in BOOLEAN :
          /\ send_alert(t, alert_message, alert_level, ok).raises = "none"
          /\ send_error_alert(t, exc, ok).raises = "none"
    /\ (pc \in {"done", "except"} /\ alert_message # NoMessage) =>
          /\ pc = "done"
          /\ outcome = "result" /\ raised = "none"
          /\ result.statusCode = 200
          /\ result.riskScore = ExpectedScore
          /\ result.alertLevel = ExpectedTier
          /\ errorAlertCalls = 0
          /\ PublishedOfKind("error") = {}

C6_Witness ==
    /\ pc = "done" /\ outcome = "result"
    /\ alertCalls = <<"HIGH">>
    /\ Len(published) = 1 /\ published[1].kind = "alert" /\ ~published[1].ok
    /\ result.statusCode = 200

\* C7: within one invocation there is at most one findings fetch, at most
\* one send_alert call and success publish, and at most one
\* send_error_alert call and error publish.
C7_AtMostOnce ==
    /\ fetchCalls <= 1
    /\ Len(alertCalls) <= 1
    /\ errorAlertCalls <= 1
    /\ Cardinality(PublishedOfKind("alert")) <= 1
    /\ Cardinality(PublishedOfKind("error")) <= 1

C7_Witness ==
    /\ pc = "done" /\ fetchCalls = 1
    /\ Cardinality(PublishedOfKind("alert")) = 1
    /\ ~published[1].ok

\* C8 as stated: with SNS_TOPIC_ARN not configured, send_alert and
\* send_error_alert each log the condition and return without raising and
\* without publishing.
C8_BothLogWhenUnset ==
    (pc = "done" /\ env \in {NoneVal, ""}
        /\ (alertCalls # <<>> \/ errorAlertCalls > 0)) =>
        /\ published = <<>>
        /\ Logged("SNS_TOPIC_ARN not configured")
        /\ (alertCalls # <<>> => outcome = "result")
        /\ (errorAlertCalls > 0 => raised = exc)

\* C8 amended: with SNS_TOPIC_ARN not configured (absent or empty),
\* send_alert logs the condition and returns without raising and without
\* publishing; send_error_alert returns without raising and without
\* publishing, and writes no log record.
C8_UnsetTopicNoPublish ==
    (pc = "done" /\ env \in {NoneVal, ""}) =>
        /\ published = <<>>
        /\ (alertCalls # <<>> =>
               /\ Logged("SNS_TOPIC_ARN not configured")
               /\ outcome = "result" /\ raised = "none")
        /\ (errorAlertCalls > 0 =>
               /\ log = <<"Processing ECR scan event", "Error processing scan results">>
               /\ outcome = "raised" /\ raised = exc)

C8_Witness ==
    /\ pc = "done" /\ env = ""
    /\ errorAlertCalls = 1 /\ published = <<>>
    /\ ~Logged("SNS_TOPIC_ARN not configured")

\* C9: the top-findings list has min(5, n) entries: the first min(5, n)
\* findings of the input put in the order MEDIUM, LOW, HIGH, CRITICAL of
\* their severity (a finding without severity sorts as LOW), findings of
\* equal severity keeping their input order.
SeverityPlace(f) ==
    LET sev == IF "severity" \in DOMAIN f THEN f["severity"] ELSE SevLOW
    IN CHOOSE k \in 1..4 : <<SevMEDIUM, SevLOW, SevHIGH, SevCRITICAL>>[k] = sev

PlaceInSorted(i) ==
    1 + Cardinality({j \in DOMAIN findings :
            \/ SeverityPlace(findings[j]) < SeverityPlace(findings[i])
            \/ (SeverityPlace(findings[j]) = SeverityPlace(findings[i]) /\ j < i)})

C9_TopFive ==
    Assessed =>
        /\ Len(top_vulnerabilities) = (IF Len(findings) < 5 THEN Len(findings) ELSE 5)
        /\ Len(top_vulnerabilities) <= 5
        /\ \A i \in DOMAIN findings :
              PlaceInSorted(i) <= 5 =>
                  top_vulnerabilities[PlaceInSorted(i)].name = findings[i]["name"]

C9_Witness ==
    /\ pc = "format"
    /\ Len(findings) = 6 /\ Len(top_vulnerabilities) = 5
    /\ top_vulnerabilities[1].severity = SevMEDIUM
    /\ top_vulnerabilities[5].severity = SevHIGH
    /\ \E i \in DOMAIN findings : Get(findings[i], "severity", SevLOW) = SevCRITICAL

\* C10: send_error_alert is called exactly in the invocations that end by
\* raising; an invocation that returns publishes no error report, and an
\* invocation in which a step failed calls send_alert never and publishes no
\* success report.
C10_ErrorPathIffRaised ==
    /\ errorAlertCalls > 0 => outcome = "raised"
    /\ pc = "done" => (outcome = "raised" <=> errorAlertCalls > 0)
    /\ outcome \in {"returned", "result"} =>
          (errorAlertCalls = 0 /\ PublishedOfKind("error") = {})
    /\ exc # "none" => (alertCalls = <<>> /\ PublishedOfKind("alert") = {})

C10_Witness ==
    /\ pc = "done" /\ outcome = "raised"
    /\ errorAlertCalls = 1
    /\ Len(published) = 1 /\ published[1].kind = "error" /\ published[1].ok

====
